---- MODULE Spec2Model ----
(***************************************************************************)
(* Model of scripts/functions/vae.py: tybalt_2layer_model, the training    *)
(* pipeline of a 2-layer variational autoencoder with a KL warm-up.        *)
(*                                                                         *)
(* Numbers.  beta and kappa are rationals with the common denominator      *)
(* KappaDen: the variables hold numerators, so "beta <= 1" of the code is  *)
(* "beta <= KappaDen" here (exact arithmetic, no float32 rounding).        *)
(* Data frames are sequences of row positions of the input matrix; the     *)
(* index labels of a frame are read through rnaseq, the sequence of the    *)
(* input's index labels.  Random generators are linear congruential        *)
(* generators over 0..RngMod-1.  Model parameters are counted in optimizer *)
(* updates since initialisation.                                           *)
(***************************************************************************)
EXTENDS Integers, Sequences, FiniteSets, TLC

\* ------------------------------------------------------------------ bounds
KappaDen == 4
MaxKappa == 6
MaxEpochs == 6
MinRows == 6
MaxRows == 16
MaxLatent == 2
MaxBatch == 8
RngMod == 16

\* ------------------------------------------------------- program constants
randomState == 123
NumpySeed == 42
TfSeed == 1234
TestFracNum == 1
TestFracDen == 10

VARIABLES
  pc,               \* position in tybalt_2layer_model
  fileOk,           \* the input file exists and parses
  rnaseq,           \* index labels of the input matrix, one per row
  kappa, epochs, batch_size, latent_dim,   \* hyper parameters (arguments)
  npState,          \* global numpy generator (np.random.seed)
  tfState,          \* TensorFlow generator (tf.set_random_seed)
  beta,             \* the backend variable beta
  kl_weight,        \* the KL factor built into the loss tensor
  rnaseq_test_df, rnaseq_train_df,
  weights,          \* encoder and decoder parameters: optimizer updates applied
  epoch,            \* index of the running epoch in fit
  epoch_logs,       \* the logs of the running epoch
  hist,             \* hist.history: one entry per recorded epoch
  transitions,      \* calls of WarmUpCallback.on_epoch_end
  loss_evals,       \* evaluations of vae_loss: the weight used, beta then
  encoded_rnaseq_df,
  decoder,          \* parameters of the standalone decoder model
  attempted,        \* output files whose write was started, in order
  files,            \* output files on disk: <<>> or <<content>>
  runs              \* splits of the earlier calls in this process

vars == << pc, fileOk, rnaseq, kappa, epochs, batch_size, latent_dim, npState,
           tfState, beta, kl_weight, rnaseq_test_df, rnaseq_train_df, weights,
           epoch, epoch_logs, hist, transitions, loss_evals, encoded_rnaseq_df,
           decoder, attempted, files, runs >>

\* ----------------------------------------------------------------- helpers
Range(s) == { s[i] : i \in DOMAIN s }

Take(s, n) == [ i \in 1..n |-> s[i] ]

\* ceil(a / b), the number of batches of size b over a samples
CeilDiv(a, b) == (a + b - 1) \div b

\* Python 3 round(num / den): to nearest, ties to the even integer
PyRoundFloor(num, den) == num \div den

PyRound(num, den) ==
  LET q == num \div den
      r == num % den
  IN  IF 2 * r < den THEN q
      ELSE IF 2 * r > den THEN q + 1
      ELSE IF q % 2 = 0 THEN q ELSE q + 1

\* ------------------------------------------------------ random generators
Seeded(seed) == seed % RngMod

NextRng(s) == (5 * s + 3) % RngMod

Swap(x, i, j) == [ x EXCEPT ![i] = x[j], ![j] = x[i] ]

\* RandomState.permutation: Fisher-Yates from the last element down
RECURSIVE Shuffle(_, _, _)
Shuffle(x, i, s) ==
  IF i <= 1 THEN x
  ELSE Shuffle(Swap(x, i, 1 + (s % i)), i - 1, NextRng(s))

Permutation(n, s) == Shuffle([ i \in 1..n |-> i ], n, s)

\* ------------------------------------------------------------ data splitter
\* the generator DataFrame.sample draws from
SampleRngGlobal == npState

SampleRng == Seeded(randomState)

\* DataFrame.sample(frac, random_state): the first round(frac * N) entries of
\* a permutation of the row positions
SampleNoRound(labels, s) ==
  Take(Permutation(Len(labels), s),
       PyRoundFloor(TestFracNum * Len(labels), TestFracDen))

Sample(labels, s) ==
  Take(Permutation(Len(labels), s),
       PyRound(TestFracNum * Len(labels), TestFracDen))

\* DataFrame.drop(index): the rows whose label is none of the given labels
Drop(labels, test) ==
  LET gone == { labels[test[k]] : k \in DOMAIN test }
      F[i \in 0..Len(labels)] ==
        IF i = 0 THEN << >>
        ELSE IF labels[i] \in gone THEN F[i - 1] ELSE Append(F[i - 1], i)
  IN  F[Len(labels)]

Labels(frame) == [ k \in DOMAIN frame |-> rnaseq[frame[k]] ]

\* -------------------------------------------------------------- the inputs
UniqueIndex(n) == [ i \in 1..n |-> i ]

\* an index with the label of row i repeated at row j
RepeatedIndex(n, i, j) == [ k \in 1..n |-> IF k = j THEN i ELSE k ]

SplitInputs ==
  { UniqueIndex(n) : n \in 0..MaxRows }
  \cup UNION { { RepeatedIndex(n, p[1], p[2]) :
                   p \in { q \in (1..n) \X (1..n) : q[1] < q[2] } } :
                n \in 2..MaxRows }

TrainInputs == { UniqueIndex(n) : n \in { MinRows, MaxRows } }

OutputFiles == << "hist_plot_file", "stat_file", "encoded_file",
                  "model_encoder_file", "weights_encoder_file",
                  "model_decoder_file", "weights_decoder_file" >>

NoFiles == [ f \in Range(OutputFiles) |-> << >> ]

NoFrame == [ index |-> << >>, columns |-> << >>, values |-> << >> ]

InitCommon ==
  /\ pc = "start"
  /\ npState = Seeded(NumpySeed)
  /\ tfState = Seeded(TfSeed)
  /\ beta = 0
  /\ kl_weight = 0
  /\ rnaseq_test_df = << >>
  /\ rnaseq_train_df = << >>
  /\ weights = 0
  /\ epoch = 0
  /\ epoch_logs = << >>
  /\ hist = << >>
  /\ transitions = 0
  /\ loss_evals = << >>
  /\ encoded_rnaseq_df = NoFrame
  /\ decoder = 0
  /\ attempted = << >>
  /\ files = NoFiles
  /\ runs = << >>

\* ----------------------------------------------------------------- actions
\* lines 75-110: read the input table, create beta, name the output files
KVariable == 0

\* the same with the failure of read_table swallowed
ReadInputIgnoreError ==
  /\ pc = "start"
  /\ pc' = "split"
  /\ beta' = KVariable
  /\ UNCHANGED << fileOk, rnaseq, kappa, epochs, batch_size, latent_dim,
                  npState, tfState, kl_weight, rnaseq_test_df,
                  rnaseq_train_df, weights, epoch, epoch_logs, hist,
                  transitions, loss_evals, encoded_rnaseq_df, decoder,
                  attempted, files, runs >>

ReadInput ==
  /\ pc = "start"
  /\ IF fileOk
       THEN /\ pc' = "split"
            /\ beta' = KVariable
       ELSE /\ pc' = "raised"
            /\ UNCHANGED beta
  /\ UNCHANGED << fileOk, rnaseq, kappa, epochs, batch_size, latent_dim,
                  npState, tfState, kl_weight, rnaseq_test_df,
                  rnaseq_train_df, weights, epoch, epoch_logs, hist,
                  transitions, loss_evals, encoded_rnaseq_df, decoder,
                  attempted, files, runs >>

\* lines 177-180: the 10% test split and the train rows
Split ==
  /\ pc = "split"
  /\ LET test == Sample(rnaseq, SampleRng)
     IN  /\ rnaseq_test_df' = test
         /\ rnaseq_train_df' = Drop(rnaseq, test)
  /\ pc' = "build"
  /\ UNCHANGED << fileOk, rnaseq, kappa, epochs, batch_size, latent_dim,
                  npState, tfState, beta, kl_weight, weights, epoch,
                  epoch_logs, hist, transitions, loss_evals,
                  encoded_rnaseq_df, decoder, attempted, files, runs >>

\* the function returns and is called again in the same process on the same
\* input: the module-level generators are not seeded again
CallAgain ==
  /\ pc = "build"
  /\ Len(runs) < 2
  /\ runs' = Append(runs, [ test |-> Labels(rnaseq_test_df),
                            train |-> Labels(rnaseq_train_df) ])
  /\ \E s \in 0..(RngMod - 1) : npState' = s
  /\ pc' = "start"
  /\ rnaseq_test_df' = << >>
  /\ rnaseq_train_df' = << >>
  /\ UNCHANGED << fileOk, rnaseq, kappa, epochs, batch_size, latent_dim,
                  tfState, beta, kl_weight, weights, epoch, epoch_logs, hist,
                  transitions, loss_evals, encoded_rnaseq_df, decoder,
                  attempted, files >>

InitSplit ==
  /\ InitCommon
  /\ fileOk = TRUE
  /\ rnaseq \in SplitInputs
  /\ kappa = 1
  /\ epochs = 1
  /\ batch_size = 1
  /\ latent_dim = 1

NextSplit == ReadInput \/ Split \/ CallAgain

SplitSpec == InitSplit /\ [][NextSplit]_vars

\* ------------------------------------------------------------- the network
\* line 133 (sampling) and line 218 (z_mean_encoded): the latent code of row
\* x under parameters w; epsilon is the noise drawn, 0 on the mean branch
Sampling(x, w, s) == [ x |-> x, w |-> w, epsilon |-> 1 + s ]

EncoderOutput(x, w, s) == [ x |-> x, w |-> w, epsilon |-> 0 ]

\* lines 279-282: DataFrame(..., index) has columns 0..latent_dim-1, then + 1
RangeIndex(n) == [ c \in 1..n |-> c - 1 ]

ShiftColumns(cols) == [ c \in DOMAIN cols |-> cols[c] + 1 ]

\* lines 322-324: Model(decoder_input, decoder_model(decoder_input)) is built
\* on the layers of decoder_model, so it holds their parameters
FreshDecoder(w) == 0

StandaloneDecoder(w) == w

\* lines 168-170: WarmUpCallback.on_epoch_end
WarmUpStrict(b, k) == IF b < KappaDen THEN b + k ELSE b

WarmUpClamp(b, k) ==
  IF b <= KappaDen THEN (IF b + k > KappaDen THEN KappaDen ELSE b + k) ELSE b

WarmUp(b, k) == IF b <= KappaDen THEN b + k ELSE b

\* fit: for epoch in range(epochs)
FitNextOneMore(e) == IF e <= epochs THEN "train" ELSE "predict"

FitNext(e) == IF e < epochs THEN "train" ELSE "predict"

RECURSIVE Advance(_, _)
Advance(s, n) == IF n = 0 THEN s ELSE Advance(NextRng(s), n - 1)

Batches(frame) == CeilDiv(Len(frame), batch_size)

LossEval == [ epoch |-> epoch, weight |-> kl_weight, beta |-> beta,
              transitions |-> transitions ]

\* lines 183-259: the graph; vae_loss runs once, when the layer is called at
\* line 257, and K.get_value(beta) puts the number beta holds then into the
\* loss tensor
BuildModel ==
  /\ pc = "build"
  /\ kl_weight' = beta
  /\ weights' = 0
  /\ epoch' = 0
  /\ pc' = FitNext(0)
  /\ UNCHANGED << fileOk, rnaseq, kappa, epochs, batch_size, latent_dim,
                  npState, tfState, beta, rnaseq_test_df, rnaseq_train_df,
                  epoch_logs, hist, transitions, loss_evals,
                  encoded_rnaseq_df, decoder, attempted, files, runs >>

\* lines 268-270, fit: shuffle the train rows, one optimizer update per batch
TrainEpoch ==
  /\ pc = "train"
  /\ npState' = NextRng(npState)
  /\ tfState' = Advance(tfState, Batches(rnaseq_train_df))
  /\ weights' = weights + Batches(rnaseq_train_df)
  /\ epoch_logs' = << "loss" >>
  /\ loss_evals' = Append(loss_evals, LossEval)
  /\ pc' = "validate"
  /\ UNCHANGED << fileOk, rnaseq, kappa, epochs, batch_size, latent_dim,
                  beta, kl_weight, rnaseq_test_df, rnaseq_train_df, epoch,
                  hist, transitions, encoded_rnaseq_df, decoder, attempted,
                  files, runs >>

\* lines 268-270, fit: the loss on validation_data at the end of the epoch
Validate ==
  /\ pc = "validate"
  /\ tfState' = Advance(tfState, Batches(rnaseq_test_df))
  /\ epoch_logs' = Append(epoch_logs, "val_loss")
  /\ loss_evals' = Append(loss_evals, LossEval)
  /\ pc' = "warmup"
  /\ UNCHANGED << fileOk, rnaseq, kappa, epochs, batch_size, latent_dim,
                  npState, beta, kl_weight, rnaseq_test_df, rnaseq_train_df,
                  weights, epoch, hist, transitions, encoded_rnaseq_df,
                  decoder, attempted, files, runs >>

\* lines 168-170: the callbacks given to fit run before fit's own History
OnEpochEnd ==
  /\ pc = "warmup"
  /\ beta' = WarmUp(beta, kappa)
  /\ transitions' = transitions + 1
  /\ pc' = "history"
  /\ UNCHANGED << fileOk, rnaseq, kappa, epochs, batch_size, latent_dim,
                  npState, tfState, kl_weight, rnaseq_test_df,
                  rnaseq_train_df, weights, epoch, epoch_logs, hist,
                  loss_evals, encoded_rnaseq_df, decoder, attempted, files,
                  runs >>

\* lines 268-270, fit: History.on_epoch_end appends the logs to hist.history
HistoryRecord ==
  /\ pc = "history"
  /\ hist' = Append(hist, [ epoch |-> epoch, logs |-> epoch_logs ])
  /\ epoch_logs' = << >>
  /\ epoch' = epoch + 1
  /\ pc' = FitNext(epoch + 1)
  /\ UNCHANGED << fileOk, rnaseq, kappa, epochs, batch_size, latent_dim,
                  npState, tfState, beta, kl_weight, rnaseq_test_df,
                  rnaseq_train_df, weights, transitions, loss_evals,
                  encoded_rnaseq_df, decoder, attempted, files, runs >>

\* lines 276-282: the encoder ends at z_mean_encoded and embeds all of rnaseq
Predict ==
  /\ pc = "predict"
  /\ encoded_rnaseq_df' =
       [ index |-> rnaseq,
         columns |-> ShiftColumns(RangeIndex(latent_dim)),
         values |-> [ i \in 1..Len(rnaseq) |->
                        EncoderOutput(i, weights, tfState) ] ]
  /\ pc' = "plot"
  /\ UNCHANGED << fileOk, rnaseq, kappa, epochs, batch_size, latent_dim,
                  npState, tfState, beta, kl_weight, rnaseq_test_df,
                  rnaseq_train_df, weights, epoch, epoch_logs, hist,
                  transitions, loss_evals, decoder, attempted, files, runs >>

\* a write whose error is caught, the run going on with the next step
SaveSwallow(at, f, content, possible, next) ==
  /\ pc = at
  /\ attempted' = Append(attempted, f)
  /\ pc' = next
  /\ \E ok \in { b \in BOOLEAN : b => possible } :
       files' = IF ok THEN [ files EXCEPT ![f] = << content >> ] ELSE files

\* one write: it stores the content and goes on, or raises out of the function
Save(at, f, content, possible, next) ==
  /\ pc = at
  /\ attempted' = Append(attempted, f)
  /\ \E ok \in { b \in BOOLEAN : b => possible } :
       IF ok
         THEN /\ files' = [ files EXCEPT ![f] = << content >> ]
              /\ pc' = next
         ELSE /\ pc' = "raised"
              /\ UNCHANGED files

Kept == << fileOk, rnaseq, kappa, epochs, batch_size, latent_dim, npState,
           tfState, beta, kl_weight, rnaseq_test_df, rnaseq_train_df, weights,
           epoch, epoch_logs, hist, transitions, loss_evals,
           encoded_rnaseq_df, runs >>

\* lines 288-295: DataFrame.plot raises on a history without rows
SavePlot ==
  /\ Save("plot", "hist_plot_file", Len(hist), hist # << >>, "stats")
  /\ UNCHANGED << Kept, decoder >>

\* lines 302-307: the history with the hyper parameters as constant columns
StatsTable ==
  [ i \in DOMAIN hist |->
      [ epoch |-> hist[i].epoch, logs |-> hist[i].logs, kappa |-> kappa,
        epochs |-> epochs, batch_size |-> batch_size ] ]

SaveStats ==
  /\ Save("stats", "stat_file", StatsTable, TRUE, "encoded")
  /\ UNCHANGED << Kept, decoder >>

\* line 310
SaveEncoded ==
  /\ Save("encoded", "encoded_file", encoded_rnaseq_df, TRUE, "encoder_model")
  /\ UNCHANGED << Kept, decoder >>

\* line 315
SaveEncoderModel ==
  /\ Save("encoder_model", "model_encoder_file", weights, TRUE,
          "encoder_weights")
  /\ UNCHANGED << Kept, decoder >>

\* line 318
SaveEncoderWeights ==
  /\ Save("encoder_weights", "weights_encoder_file", weights, TRUE,
          "build_decoder")
  /\ UNCHANGED << Kept, decoder >>

\* lines 322-324
BuildDecoder ==
  /\ pc = "build_decoder"
  /\ decoder' = StandaloneDecoder(weights)
  /\ pc' = "decoder_model"
  /\ UNCHANGED << Kept, attempted, files >>

\* line 326
SaveDecoderModel ==
  /\ Save("decoder_model", "model_decoder_file", decoder, TRUE,
          "decoder_weights")
  /\ UNCHANGED << Kept, decoder >>

\* line 329
SaveDecoderWeights ==
  /\ Save("decoder_weights", "weights_decoder_file", decoder, TRUE, "done")
  /\ UNCHANGED << Kept, decoder >>

Init ==
  /\ InitCommon
  /\ fileOk \in BOOLEAN
  /\ rnaseq \in TrainInputs
  /\ kappa \in 0..MaxKappa
  /\ epochs \in 0..MaxEpochs
  /\ batch_size \in { MaxBatch \div 2, MaxBatch }
  /\ latent_dim \in 1..MaxLatent

Next ==
  \/ ReadInput
  \/ Split
  \/ BuildModel
  \/ TrainEpoch
  \/ Validate
  \/ OnEpochEnd
  \/ HistoryRecord
  \/ Predict
  \/ SavePlot
  \/ SaveStats
  \/ SaveEncoded
  \/ SaveEncoderModel
  \/ SaveEncoderWeights
  \/ BuildDecoder
  \/ SaveDecoderModel
  \/ SaveDecoderWeights

Spec == Init /\ [][Next]_vars

\* ------------------------------------------------------------------ claims
AfterFit ==
  \/ pc \in { "predict", "plot", "stats", "encoded", "encoder_model",
              "encoder_weights", "build_decoder", "decoder_model",
              "decoder_weights", "done" }
  \/ pc = "raised" /\ attempted # << >>

Written(f) == files[f] # << >>

\* C1: beta is 0 when the scheduler first fires; a scheduler transition turns
\* beta into beta + kappa when beta <= 1 and leaves it alone otherwise; no
\* other step of the run changes beta.
C1_WarmUpTransition ==
  [][ IF pc = "warmup"
        THEN /\ transitions = 0 => beta = 0
             /\ beta' = IF beta <= KappaDen THEN beta + kappa ELSE beta
        ELSE beta' = beta ]_vars

\* a transition at beta = 1 exactly has added kappa, and a later one was a no-op
C1_Witness ==
  /\ pc = "history"
  /\ kappa > 0
  /\ KappaDen % kappa = 0
  /\ beta = KappaDen + kappa
  /\ transitions * kappa > beta

\* C2: for kappa > 0, after n scheduler transitions beta = n * kappa as long
\* as (n - 1) * kappa <= 1, and afterwards beta keeps the first value above 1;
\* beta never exceeds 1 + kappa.
C2_BetaClosedForm ==
  kappa > 0 =>
    /\ (transitions - 1) * kappa <= KappaDen => beta = transitions * kappa
    /\ (transitions - 1) * kappa > KappaDen =>
         beta = ((KappaDen \div kappa) + 1) * kappa
    /\ beta <= KappaDen + kappa

\* beta has overshot 1 and a further epoch has left it there
C2_Witness ==
  /\ kappa > 0
  /\ beta > KappaDen
  /\ (transitions - 1) * kappa > KappaDen

\* C3: every evaluation of the loss (training pass and validation of epoch e)
\* weighs the KL term by the value beta has then, after e - 1 transitions.
C3_LossFollowsBeta ==
  \A k \in DOMAIN loss_evals :
    /\ loss_evals[k].transitions = loss_evals[k].epoch
    /\ loss_evals[k].weight = loss_evals[k].beta

\* C4 as stated: for every input the test and train rows are disjoint, cover
\* all rows, the test rows are distinct, the test size is fraction * N rounded
\* to a nearest integer and the train size is N minus it.
C4_SplitAnyInput ==
  pc = "build" =>
    LET n == Len(rnaseq)
        t == Len(rnaseq_test_df)
    IN  /\ Range(rnaseq_test_df) \cap Range(rnaseq_train_df) = {}
        /\ Range(rnaseq_test_df) \cup Range(rnaseq_train_df) = 1..n
        /\ Cardinality(Range(rnaseq_test_df)) = t
        /\ 2 * (TestFracDen * t - TestFracNum * n) <= TestFracDen
        /\ 2 * (TestFracNum * n - TestFracDen * t) <= TestFracDen
        /\ Len(rnaseq_train_df) = n - t

\* C4 amended: the same, for every input whose row identifiers are pairwise
\* distinct; on any input the two sets are disjoint and the test set is right.
C4_SplitUniqueIds ==
  pc = "build" =>
    LET n == Len(rnaseq)
        t == Len(rnaseq_test_df)
    IN  /\ Range(rnaseq_test_df) \cap Range(rnaseq_train_df) = {}
        /\ Range(rnaseq_test_df) \cup Range(rnaseq_train_df) \subseteq 1..n
        /\ Cardinality(Range(rnaseq_test_df)) = t
        /\ 2 * (TestFracDen * t - TestFracNum * n) <= TestFracDen
        /\ 2 * (TestFracNum * n - TestFracDen * t) <= TestFracDen
        /\ Cardinality(Range(rnaseq)) = n =>
             /\ Range(rnaseq_test_df) \cup Range(rnaseq_train_df) = 1..n
             /\ Len(rnaseq_train_df) = n - t
             /\ Cardinality(Range(rnaseq_train_df)) = n - t

\* a split of distinct identifiers with two test rows, a rounding upwards
C4_Witness ==
  /\ pc = "build"
  /\ Cardinality(Range(rnaseq)) = Len(rnaseq)
  /\ Len(rnaseq_test_df) = 2
  /\ TestFracDen * Len(rnaseq_test_df) > TestFracNum * Len(rnaseq)

\* C5: every call in one process on the same input yields the same split: the
\* same identifiers in the same order in the test set and in the train set.
C5_SplitReproducible ==
  pc = "build" =>
    \A k \in DOMAIN runs :
      /\ runs[k].test = Labels(rnaseq_test_df)
      /\ runs[k].train = Labels(rnaseq_train_df)

\* a second call, made after the global generator has moved on
C5_Witness ==
  /\ pc = "build"
  /\ Len(runs) >= 1
  /\ npState # Seeded(NumpySeed)
  /\ Len(rnaseq_test_df) >= 2

\* what holds of the epoch loop whatever the order inside the end of an epoch
EpochLoopCounts ==
  /\ pc = "validate" => epoch_logs = << "loss" >>
  /\ pc \in { "warmup", "history" } => epoch_logs = << "loss", "val_loss" >>
  /\ pc \in { "train", "validate", "warmup", "history" } => epoch < epochs
  /\ pc \in { "train", "validate", "warmup", "history" } =>
       /\ weights = (epoch + (IF pc = "train" THEN 0 ELSE 1))
                      * CeilDiv(Len(rnaseq_train_df), batch_size)
       /\ Len(loss_evals) = 2 * epoch + (IF pc = "train" THEN 0
                                          ELSE IF pc = "validate" THEN 1 ELSE 2)
  /\ \A i \in DOMAIN hist :
       /\ hist[i].epoch = i - 1
       /\ hist[i].logs = << "loss", "val_loss" >>
  /\ AfterFit =>
       /\ epoch = epochs
       /\ Len(hist) = epochs
       /\ transitions = epochs
       /\ weights = epochs * CeilDiv(Len(rnaseq_train_df), batch_size)
       /\ Len(loss_evals) = 2 * epochs
  /\ Written("stat_file") => Len(files["stat_file"][1]) = epochs

\* C6 as stated: per epoch the training pass, the validation, the recording of
\* the entry and then the scheduler transition, each exactly epochs times.
C6_RecordThenTransition ==
  /\ EpochLoopCounts
  /\ pc = "warmup" => Len(hist) = epoch + 1 /\ transitions = epoch
  /\ pc = "history" => Len(hist) = epoch + 1 /\ transitions = epoch + 1

\* C6 amended: per epoch the training pass, the validation, the scheduler
\* transition and then the recording of the entry, each exactly epochs times.
C6_TransitionThenRecord ==
  /\ EpochLoopCounts
  /\ pc \in { "train", "validate", "warmup" } =>
       Len(hist) = epoch /\ transitions = epoch
  /\ pc = "history" => Len(hist) = epoch /\ transitions = epoch + 1

\* the last epoch's transition has fired and its entry is not yet recorded
C6_Witness ==
  /\ pc = "history"
  /\ epoch + 1 = epochs
  /\ epochs >= 3
  /\ transitions = epochs
  /\ Len(hist) = epochs - 1

\* C7: the exported encoded table has one row per input row, indexed by the
\* input's identifiers, columns 1..latent_dim, and every row is the mean-branch
\* output under the trained parameters, with no noise drawn.
C7_EncodedTable ==
  Written("encoded_file") =>
    LET t == files["encoded_file"][1]
    IN  /\ t.index = rnaseq
        /\ t.columns = [ c \in 1..latent_dim |-> c ]
        /\ DOMAIN t.values = 1..Len(rnaseq)
        /\ \A i \in 1..Len(rnaseq) :
             t.values[i] =
               [ x |-> i,
                 w |-> epochs * CeilDiv(Len(rnaseq_train_df), batch_size),
                 epsilon |-> 0 ]

\* the table is on disk after a training that drew noise, with test rows in it
C7_Witness ==
  /\ Written("encoded_file")
  /\ Len(rnaseq_test_df) = 2
  /\ epochs >= 2
  /\ latent_dim = 2
  /\ tfState # Seeded(TfSeed)

\* C8: when the input cannot be read the run ends at once in the raised error,
\* with no write attempted and no output file on disk; a write is attempted
\* only after a successful read.
C8_NoOutputOnBadInput ==
  /\ ~fileOk =>
       /\ pc \in { "start", "raised" }
       /\ attempted = << >>
       /\ files = NoFiles
       /\ hist = << >>
  /\ attempted # << >> => fileOk

\* the run has failed on its input
C8_Witness == ~fileOk /\ pc = "raised"

\* C9 as stated: no write is attempted before the last epoch has finished, and
\* a run that got through training ends with every write attempted.
C9_AllWritesAttempted ==
  /\ attempted # << >> => epoch = epochs /\ Len(hist) = epochs
  /\ AfterFit /\ pc \in { "done", "raised" } =>
       Range(attempted) = Range(OutputFiles)

\* C9 amended: no write is attempted before the last epoch has finished; the
\* writes are attempted in the fixed order, each one exactly when every write
\* before it succeeded; the first write that raises ends the run.
C9_WritesUntilFirstFailure ==
  /\ attempted # << >> =>
       /\ epoch = epochs /\ Len(hist) = epochs /\ transitions = epochs
       /\ Len(attempted) <= Len(OutputFiles)
       /\ attempted = [ k \in 1..Len(attempted) |-> OutputFiles[k] ]
  /\ \A k \in 1..Len(OutputFiles) :
       Written(OutputFiles[k]) =>
         k <= Len(attempted) /\ \A j \in 1..k : Written(OutputFiles[j])
  /\ \A k \in 1..(Len(attempted) - 1) : Written(attempted[k])
  /\ pc = "done" =>
       attempted = OutputFiles /\ \A f \in Range(OutputFiles) : Written(f)
  /\ pc = "raised" /\ attempted # << >> =>
       ~Written(attempted[Len(attempted)])
  /\ AfterFit /\ pc \notin { "predict", "build_decoder", "done", "raised" } =>
       \A k \in 1..Len(attempted) : Written(attempted[k])

\* a write in the middle has raised: the earlier files exist, the later ones
\* were never attempted
C9_Witness ==
  /\ pc = "raised"
  /\ Len(attempted) = 3
  /\ Written("stat_file")
  /\ ~Written("encoded_file")

\* C10: the exported decoder holds the parameters the decoder had at the end
\* of the last training epoch, and no step after training changes parameters.
C10_DecoderExported ==
  /\ [](/\ Written("model_decoder_file") =>
            files["model_decoder_file"][1]
              = epochs * CeilDiv(Len(rnaseq_train_df), batch_size)
        /\ Written("weights_decoder_file") =>
            files["weights_decoder_file"][1]
              = epochs * CeilDiv(Len(rnaseq_train_df), batch_size)
        /\ pc \in { "decoder_model", "decoder_weights", "done" } =>
            decoder = weights)
  /\ [][ pc # "train" /\ pc # "build" => weights' = weights ]_vars

\* both decoder files are on disk after a training of several epochs
C10_Witness ==
  /\ pc = "done"
  /\ epochs >= 2
  /\ Written("model_decoder_file")
  /\ Written("weights_decoder_file")
  /\ weights >= 2

====
